---- MODULE Spec2Model ----
(***************************************************************************)
(* Variational-Bayes Gaussian mixture inference (pypmc.cluster.variational) *)
(* GaussianInference: parameter state, E-step / M-step, prune() and the     *)
(* convergence loop run().                                                  *)
(*                                                                          *)
(* Numerical abstraction.  Floating point values are modelled by integers.  *)
(* The responsibilities r (N x K, rows sum to one) are modelled by the mass  *)
(* of each column, a whole number of samples: the column masses add up to   *)
(* N, and N_comp[k] (the column sum, eq. 10.51) is the mass of column k.    *)
(* The softmax that yields r and the seven-term sum of likelihood_bound()   *)
(* are not computed: their results are chosen from bounded sets.  Every     *)
(* other quantity is a term built from the values the code reads to compute *)
(* it.                                                                      *)
(***************************************************************************)
EXTENDS Integers, Sequences, FiniteSets, TLC

\* ---------------------------------------------------------------- bounds
MaxK       == 3      \* largest number of components at construction
NSamples   == 2      \* number of rows of data
Dim        == 2      \* dimension of a sample
MaxIter    == 2      \* largest value of run(iterations=...)
MaxCalls   == 2      \* number of public calls made on one engine
MaxBound   == 2      \* likelihood_bound() returns a value in -MaxBound..0
RelDen     == 4      \* rel_tol is a multiple of 1/RelDen

BoundVals  == (0 - MaxBound)..0
\* prune thresholds: none, one sample, more than there are samples
Thresholds == {0, 1, NSamples + 1}
\* the (abs_tol, rel_tol) pairs run() is called with; rel_tol = second / RelDen
TolPairs   == {<<2, 0>>, <<0, 5>>}
NoK        == 0 - 1              \* old_K = None
NoBound    == 0 - 99             \* a local variable that is not bound yet

Abs(x) == IF x < 0 THEN 0 - x ELSE x

Idx(A) == 1..Len(A)

RECURSIVE SeqSum(_)
SeqSum(s) == IF s = <<>> THEN 0 ELSE Head(s) + SeqSum(Tail(s))

\* ------------------------------------------------------------- variables
VARIABLES
    K,
    alpha0, alpha, beta0, beta, nu0, nu, m0, m, W0, inv_W0, W,
    N_comp, inv_N_comp, x_mean_comp, S,
    expectation_det_ln_lambda, expectation_ln_pi,
    expectation_gauss_exponent, r,
    error,          \* the exception that left the last call, or "none"
    calls,          \* number of public calls made so far
    pc,             \* position inside run(): idle, top, upd, chk, prune
    i, iterations, prune_thr, rel_tol, abs_tol,
    old_K, bound, old_bound,
    ret,            \* how the last run() ended: unset, int (val), None, raised
    hist,           \* observations of the current run() (not program state)
    last,           \* the operation that made the last step (not program state)
    ctor,           \* the construction in progress: position, K, attributes
                    \* set so far, the keyword argument just consumed, the error
    caller,         \* what the caller holds: the arrays it passed as W0 and W,
                    \* the dict and the mixture it was returned
    lb,             \* the sum of the seven _expectation_log_* attributes that the
                    \* last likelihood_bound() stored, and whether the engine
                    \* is as that call found it
    chain           \* a _hist: _dim, _points, _memleft, _slice_for_run_nr, the
                    \* block the last _alloc returned, and what was stored

priors     == <<alpha0, beta0, nu0, m0, W0, inv_W0>>
posteriors == <<alpha, beta, nu, m, W>>
stats      == <<N_comp, inv_N_comp, x_mean_comp, S>>
caches     == <<expectation_det_ln_lambda, expectation_ln_pi,
                expectation_gauss_exponent, r>>
engine     == <<K, priors, posteriors, stats, caches>>
runvars    == <<pc, i, iterations, prune_thr, rel_tol, abs_tol,
                old_K, bound, old_bound, ret, hist>>
vars       == <<engine, error, calls, runvars, last, ctor, caller, lb, chain>>

\* ---------------------------------------------- _hist (_chain.py 47-157)
HistMaxDim    == 3      \* largest dimension of the initial point
MaxPrealloc   == 2      \* largest prealloc_for
MaxNewPoints  == 2      \* largest new_points_len of one _alloc
MaxRuns       == 3      \* number of _alloc calls on one _hist

Min(a, b) == IF a < b THEN a ELSE b
Last(s) == s[Len(s)]

\* a[lo:hi] of Python for 0 <= lo, hi: the elements lo+1 .. min(hi, len(a))
PySlice(a, lo, hi) == SubSeq(a, lo + 1, Min(hi, Len(a)))

\* an array of rank 1 (data: its elements) or of rank 2 (data: its rows)
Vector(d) == [rank |-> 1, data |-> d]
Matrix(rows) == [rank |-> 2, data |-> rows]

\* the initial point of a chain, and the point the chain visits as step t
\* of run number run
InitialPoint(dim) == [j \in 1..dim |-> j]
Visited(run, t, dim) == [j \in 1..dim |-> 10 * run + t]

\* numpy.empty((n, dim)): n rows of whatever the memory holds
Uninitialized == {0, 99}
Empty(n, dim, g) == [t \in 1..n |-> [j \in 1..dim |-> g]]

NoBlock == [made |-> FALSE, start |-> 0, stop |-> 0, rows |-> 0, written |-> TRUE]

\* _hist.__init__ (70-80)
HistNew(initial_point, prealloc_for, g) ==
    [dim |-> Len(initial_point),
     points |-> IF prealloc_for <= 0
                THEN Vector(initial_point)
                ELSE Matrix(<<initial_point>>
                            \o Empty(prealloc_for, Len(initial_point), g)),
     memleft |-> IF prealloc_for <= 0 THEN 0 ELSE prealloc_for,
     slice_for_run_nr |-> << <<0, 1>> >>,
     requested |-> <<>>,
     visited |-> <<initial_point>>,
     block |-> NoBlock,
     err |-> "none"]

NoChain ==
    [dim |-> 0, points |-> Vector(<<>>), memleft |-> 0, slice_for_run_nr |-> <<>>,
     requested |-> <<>>, visited |-> <<>>, block |-> NoBlock, err |-> "none"]

\* get_all_points (149-154): self._points[:self._slice_for_run_nr[-1][1]]
GetAllPoints(c) ==
    [rank |-> c.points.rank,
     data |-> PySlice(c.points.data, 0, Last(c.slice_for_run_nr)[2])]

\* get_run_points (130-140), run_nr counted from 1 here
GetRunPoints(c, run_nr) ==
    [rank |-> c.points.rank,
     data |-> PySlice(c.points.data, c.slice_for_run_nr[run_nr][1],
                      c.slice_for_run_nr[run_nr][2])]

\* numpy.vstack makes a vector one row (atleast_2d) and raises ValueError
\* when the rows of its arguments differ in length
AtLeast2d(v) == IF v.rank = 1 THEN Matrix(<<v.data>>) ELSE v
VstackRaises(a, b) ==
    \E x \in Idx(AtLeast2d(a).data), y \in Idx(AtLeast2d(b).data) :
       Len(AtLeast2d(a).data[x]) # Len(AtLeast2d(b).data[y])
Vstack(a, b) == Matrix(AtLeast2d(a).data \o AtLeast2d(b).data)

\* _alloc 100: if self._memleft < new_points_len
NeedsMemory(memleft, new_points_len) == memleft < new_points_len

\* _alloc (82-111); the slice is appended before get_all_points() is called
Alloc(c, new_points_len, g) ==
    LET new_points_start == Last(c.slice_for_run_nr)[2]
        new_points_stop == new_points_start + new_points_len
        c1 == [c EXCEPT
                 !.slice_for_run_nr = Append(@, <<new_points_start, new_points_stop>>),
                 !.requested = Append(@, new_points_len)]
        fresh == Matrix(Empty(new_points_len, c.dim, g))
        c2 == IF NeedsMemory(c.memleft, new_points_len)
              THEN IF VstackRaises(GetAllPoints(c1), fresh)
                   THEN [c1 EXCEPT !.memleft = 0, !.err = "ValueError"]
                   ELSE [c1 EXCEPT !.memleft = 0, !.err = "none",
                                   !.points = Vstack(GetAllPoints(c1), fresh)]
              ELSE [c1 EXCEPT !.memleft = @ - new_points_len, !.err = "none"]
    IN [c2 EXCEPT
          !.block = IF c2.err # "none" THEN NoBlock
                    ELSE [made |-> TRUE, start |-> new_points_start,
                          stop |-> new_points_stop,
                          rows |-> Len(PySlice(c2.points.data, new_points_start,
                                               new_points_stop)),
                          written |-> FALSE]]

\* the chain stores the points of the run into the block it was returned, a
\* view of _points
Store(c) ==
    [c EXCEPT
       !.points.data = [x \in Idx(@) |->
                          IF c.block.start < x /\ x <= c.block.stop
                          THEN Visited(Len(c.requested), x - c.block.start, c.dim)
                          ELSE @[x]],
       !.visited = @ \o [t \in 1..Last(c.requested) |->
                           Visited(Len(c.requested), t, c.dim)],
       !.block.written = TRUE]

CallAlloc ==
    /\ Len(chain.requested) < MaxRuns
    /\ chain.block.written
    /\ \E new_points_len \in 0..MaxNewPoints, g \in Uninitialized :
         chain' = Alloc(chain, new_points_len, g)
    /\ UNCHANGED <<engine, error, calls, runvars, last, ctor, caller, lb>>

StoreRun ==
    /\ chain.block.made
    /\ ~chain.block.written
    /\ chain' = Store(chain)
    /\ UNCHANGED <<engine, error, calls, runvars, last, ctor, caller, lb>>

NextHist == CallAlloc \/ StoreRun

\* ------------------------------------------------------------ matrices
\* A D x D matrix is named by an integer.  What the code asks of a matrix
\* is the sign of its determinant and whether it can be inverted; the
\* names below are matrices a caller can pass as W.
MatNonPD    == 20    \* diag(-1, -1, 1, ..., 1): not positive definite, det > 0
MatNegDet   == 21    \* diag(-1, 1, ..., 1): det < 0
MatSingular == 22    \* the zero matrix: det = 0
MatNegDef   == 30    \* from 30 on: minus a positive definite matrix

\* the matrix an engine matrix stands or falls with: W[k] as passed or
\* constructed, or, once _update_W has written it, the inverse of a sum of
\* inv_W0[k] and positive semi-definite terms
MatName(M) == IF M.post THEN M.inv_W0.inv ELSE M.id

\* the sign of numpy.linalg.det
DetSign(M) ==
    IF MatName(M) = MatSingular THEN 0
    ELSE IF MatName(M) = MatNegDet THEN 0 - 1
    ELSE IF MatName(M) >= MatNegDef THEN (IF Dim % 2 = 0 THEN 1 ELSE 0 - 1)
    ELSE 1

PosDef(M) == MatName(M) \notin {MatNonPD, MatNegDet, MatSingular} /\ MatName(M) < MatNegDef

\* ------------------------------------------------------ E-step (70-81)
\* _update_expectation_det_ln_lambda: res = zeros_like(nu), one entry per
\* entry of nu, computed from nu and det(W).
DetLnLambda(nu_, W_) ==
    [k \in Idx(nu_) |-> [nu |-> nu_[k], W |-> W_[k]]]

\* _update_expectation_gauss_exponent: the in-place loop over range(K)
\* assigns column k of the existing array.
GaussExponent(old, K_, beta_, nu_, m_, W_) ==
    [k \in Idx(old) |->
        IF k <= K_
        THEN [upd |-> TRUE, beta |-> beta_[k], nu |-> nu_[k], m |-> m_[k], W |-> W_[k]]
        ELSE old[k]]

\* _update_expectation_ln_pi: digamma(alpha) - digamma(alpha.sum()).
LnPi(alpha_) ==
    [k \in Idx(alpha_) |-> [a |-> alpha_[k], sum |-> SeqSum(alpha_)]]

\* _update_r: log_rho has the columns of expectation_gauss_exponent;
\* log_rho.max(axis=1) raises ValueError on an array without columns.
UpdateRRaises(gauss) == Len(gauss) = 0

\* r = rho / normalization_rho: every row sums to one, so the column masses
\* of the ncols columns add up to the number of rows
Responsibilities(ncols) ==
    {c \in [1..ncols -> 0..NSamples] : SeqSum(c) = NSamples}

\* _update_N_comp: einsum('nk->k', r, out=N_comp); inv_N_comp = 1/regularize(N_comp)
NComp(r_) == [k \in Idx(r_) |-> r_[k]]
InvNComp(N_) == [k \in Idx(N_) |-> [inv |-> N_[k]]]

\* _update_x_mean_comp: einsum('k,nk,ni->ki', inv_N_comp, r, data, out=x_mean_comp)
XMeanComp(invN, r_) == [k \in Idx(r_) |-> [invN |-> invN[k], r |-> r_[k]]]

\* _update_S: the in-place loop over range(K)
UpdateS(old, K_, r_, xm, invN) ==
    [k \in Idx(old) |->
        IF k <= K_ THEN [upd |-> TRUE, r |-> r_[k], xm |-> xm[k], invN |-> invN[k]]
        ELSE old[k]]


\* variant: the responsibilities of an E-step are unrelated to those of
\* the E-step before
UpdateRAnew(det_, lnpi_, gauss_, r_, det, lnpi, gauss) ==
    Responsibilities(Len(gauss))

\* _update_r (571-589) computes r from expectation_gauss_exponent,
\* expectation_ln_pi and expectation_det_ln_lambda (through log_rho) and
\* from nothing else: from the values the present r was computed from, it
\* computes the present r again; from other values, some r
UpdateR(det_, lnpi_, gauss_, r_, det, lnpi, gauss) ==
    IF <<det, lnpi, gauss>> = <<det_, lnpi_, gauss_>>
    THEN {r_}
    ELSE Responsibilities(Len(gauss))

\* variant: the determinants are not tested
DetAssertSkipped(W_) == FALSE

\* _update_expectation_det_ln_lambda (596-597): assert (dets > 0).all(),
\* over every matrix of the array W, before anything is assigned
DetAssertFails(W_) == \E k \in Idx(W_) : ~(DetSign(W_[k]) > 0)

\* E_step(): the seven sub-steps in the order of lines 75-81, on the
\* posterior values given (those the call finds) and on the arrays it
\* updates in place (det_ ... S_: the arrays as the call finds them).  The
\* first sub-step raises on a determinant that is not positive, the fourth
\* when there is no column.
EStep(K_, alpha_, beta_, nu_, m_, W_, det_, lnpi_, gauss_, r_, N_, invN_, xm_, S_) ==
    IF DetAssertFails(W_)
    THEN /\ error' = "AssertionError"
         /\ expectation_det_ln_lambda' = det_
         /\ expectation_gauss_exponent' = gauss_
         /\ expectation_ln_pi' = lnpi_
         /\ r' = r_
         /\ N_comp' = N_
         /\ inv_N_comp' = invN_
         /\ x_mean_comp' = xm_
         /\ S' = S_
    ELSE
    /\ expectation_det_ln_lambda' = DetLnLambda(nu_, W_)
    /\ expectation_gauss_exponent' = GaussExponent(gauss_, K_, beta_, nu_, m_, W_)
    /\ expectation_ln_pi' = LnPi(alpha_)
    /\ IF UpdateRRaises(expectation_gauss_exponent')
       THEN /\ error' = "ValueError"
            /\ r' = r_
            /\ N_comp' = N_
            /\ inv_N_comp' = invN_
            /\ x_mean_comp' = xm_
            /\ S' = S_
       ELSE /\ error' = "none"
            /\ r' \in UpdateR(det_, lnpi_, gauss_, r_, expectation_det_ln_lambda',
                            expectation_ln_pi', expectation_gauss_exponent')
            /\ N_comp' = NComp(r')
            /\ inv_N_comp' = InvNComp(N_comp')
            /\ x_mean_comp' = XMeanComp(inv_N_comp', r')
            /\ S' = UpdateS(S_, K_, r', x_mean_comp', inv_N_comp')

\* ------------------------------------------------ the caller's arrays
\* An array the caller holds: the engine attribute it was passed as or
\* returned from (of), whether the engine's attribute is still the same
\* numpy buffer (shared), its elements when the caller passed or received
\* it, and its elements now.
Buf(of, shared, d) == [of |-> of, shared |-> shared, passed |-> d, buf |-> d]
NoBuf == Buf("", FALSE, <<>>)

SnapKeys == {"alpha0", "beta0", "nu0", "m0", "W0", "alpha", "beta", "nu", "m", "W"}
NoSnap == [kind |-> "none", components |-> NoK, arrays |-> [key \in SnapKeys |-> NoBuf]]
NoMix == [made |-> FALSE, components |-> <<>>, weights |-> <<>>, skipped |-> <<>>]
NoCaller == [args |-> [W0 |-> NoBuf, W |-> NoBuf], snap |-> NoSnap, mix |-> NoMix]

\* an assignment to the elements 1..Len(new) of a shared buffer
WriteThrough(b, new) ==
    [b EXCEPT !.buf = [j \in Idx(b.buf) |-> IF j <= Len(new) THEN new[j] ELSE b.buf[j]]]

\* M_step (83-90): nu, alpha and beta are bound to new arrays; _update_m and
\* _update_W assign to the elements of the existing m and W
AfterM_step(b, m_, W_) ==
    IF ~b.shared THEN b
    ELSE IF b.of \in {"nu", "alpha", "beta"} THEN [b EXCEPT !.shared = FALSE]
    ELSE IF b.of = "m" THEN WriteThrough(b, m_)
    ELSE IF b.of = "W" THEN WriteThrough(b, W_)
    ELSE b

\* every array the caller holds, after an M-step
CallerAfterM_step(c, m_, W_) ==
    [c EXCEPT !.args = [a \in DOMAIN c.args |-> AfterM_step(c.args[a], m_, W_)],
              !.snap.arrays = [key \in SnapKeys |-> AfterM_step(c.snap.arrays[key], m_, W_)]]

\* ------------------------------------------------------ M-step (83-90)
\* nu = nu0 + N_comp (and alpha, beta alike): a new array, element by element
PriorPlusCount(prior, N_) == [k \in Idx(prior) |-> prior[k] + N_[k]]

\* _update_m (553-557): in place, for k in range(K), from the new beta
UpdateM(old, K_, beta_, beta0_, m0_, N_, xm) ==
    [k \in Idx(old) |->
        IF k <= K_
        THEN [post |-> TRUE, beta |-> beta_[k], beta0 |-> beta0_[k],
              m0 |-> m0_[k], N |-> N_[k], xm |-> xm[k]]
        ELSE old[k]]

\* _update_W (677-688): in place, for k in range(K)
UpdateW(old, K_, xm, m0_, beta0_, N_, S_, invW0) ==
    [k \in Idx(old) |->
        IF k <= K_
        THEN [post |-> TRUE, xm |-> xm[k], m0 |-> m0_[k], beta0 |-> beta0_[k],
              N |-> N_[k], S |-> S_[k], inv_W0 |-> invW0[k]]
        ELSE old[k]]

MStep ==
    /\ nu' = PriorPlusCount(nu0, N_comp)
    /\ alpha' = PriorPlusCount(alpha0, N_comp)
    /\ beta' = PriorPlusCount(beta0, N_comp)
    /\ m' = UpdateM(m, K, beta', beta0, m0, N_comp, x_mean_comp)
    /\ W' = UpdateW(W, K, x_mean_comp, m0, beta0, N_comp, S, inv_W0)
    /\ caller' = CallerAfterM_step(caller, m', W')

\* update() (516-523): M_step then E_step
Update ==
    /\ MStep
    /\ EStep(K, alpha', beta', nu', m', W', expectation_det_ln_lambda,
             expectation_ln_pi, expectation_gauss_exponent,
             r, N_comp, inv_N_comp, x_mean_comp, S)
    /\ UNCHANGED <<K, priors>>

\* ------------------------------------------------------ prune (188-232)
\* components_to_survive = where(N_comp >= threshold)[0], ascending
RECURSIVE WhereFrom(_, _, _)
WhereFrom(N_, threshold, k) ==
    IF k > Len(N_) THEN <<>>
    ELSE IF N_[k] >= threshold
         THEN <<k>> \o WhereFrom(N_, threshold, k + 1)
         ELSE WhereFrom(N_, threshold, k + 1)

ComponentsToSurvive(N_, threshold) == WhereFrom(N_, threshold, 1)

\* variant: the survivors are not moved, the arrays are only cut
ShiftLoopSkipped(A, surv, k_new) == A

\* the shift loop (212-223) on one array: m[k_new] = m[k_old] for every
\* survivor k_old in turn (the engine's arrays are distinct objects, so the
\* loop over the members commutes with the loop over the survivors)
RECURSIVE ShiftLoop(_, _, _)
ShiftLoop(A, surv, k_new) ==
    IF surv = <<>> THEN A
    ELSE ShiftLoop(IF Head(surv) # k_new
                   THEN [A EXCEPT ![k_new] = A[Head(surv)]]
                   ELSE A,
                   Tail(surv), k_new + 1)

\* the cut (226-229): member[:K]
Cut(A, K_) == SubSeq(A, 1, IF K_ < Len(A) THEN K_ ELSE Len(A))

Compact(A, surv) == Cut(ShiftLoop(A, surv, 1), Len(surv))

\* the shift loop assigns to the elements of every hyperparameter array;
\* the cut member[:K] is a view of the same buffer
AfterPrune(b, surv) ==
    IF b.shared THEN [b EXCEPT !.buf = ShiftLoop(@, surv, 1)] ELSE b

\* every array the caller holds, after the shift loop
CallerAfterPrune(c, surv) ==
    [c EXCEPT !.args = [a \in DOMAIN c.args |-> AfterPrune(c.args[a], surv)],
              !.snap.arrays = [key \in SnapKeys |-> AfterPrune(c.snap.arrays[key], surv)]]

\* prune(threshold) with a truthy threshold; inv_N_comp is no member of the
\* lists of line 207-209 and is only replaced by the E-step
PruneBody(threshold) ==
    LET surv == ComponentsToSurvive(N_comp, threshold) IN
    /\ K' = Len(surv)
    /\ alpha0' = Compact(alpha0, surv)
    /\ alpha'  = Compact(alpha, surv)
    /\ beta0'  = Compact(beta0, surv)
    /\ beta'   = Compact(beta, surv)
    /\ nu0'    = Compact(nu0, surv)
    /\ nu'     = Compact(nu, surv)
    /\ m0'     = Compact(m0, surv)
    /\ m'      = Compact(m, surv)
    /\ W0'     = Compact(W0, surv)
    /\ inv_W0' = Compact(inv_W0, surv)
    /\ W'      = Compact(W, surv)
    /\ caller' = CallerAfterPrune(caller, surv)
    /\ EStep(K', alpha', beta', nu', m', W',
             Compact(expectation_det_ln_lambda, surv),
             Compact(expectation_ln_pi, surv),
             Compact(expectation_gauss_exponent, surv),
             Compact(r, surv), Compact(N_comp, surv), inv_N_comp,
             Compact(x_mean_comp, surv), Compact(S, surv))

\* variant: only a negative threshold is skipped
FalsyNegative(threshold) == threshold < 0

\* nothing to do for a zero threshold (200-201)
Falsy(threshold) == threshold = 0

Prune(threshold) ==
    IF Falsy(threshold)
    THEN UNCHANGED <<engine, caller>> /\ error' = "none"
    ELSE PruneBody(threshold)


\* -------------------------------------------- likelihood_bound (149-164)
\* variant: a term is added to the value the call before has stored
LikelihoodBoundAccumulated(l) == BoundVals

\* the sum of the seven expectation terms, a number.  Every term is
\* assigned anew (690-775) from K, the hyperparameters, the statistics and
\* the caches before it is added: on the engine as the last call found it,
\* the sum is the same number; on another engine, some number.
LikelihoodBound(l) == IF l.fresh THEN {l.val} ELSE BoundVals

NoLb == [fresh |-> FALSE, val |-> NoBound]

\* a call that may have changed the engine
Stale(l) == [l EXCEPT !.fresh = @ /\ engine' = engine]

\* ------------------------------------------------ construction (44-68)
\* set_variational_parameters with scalars (copied to all components) or
\* with K-vectors, then _initialize_output and the first E_step
PriorStyles == {"vector"}
PriorVal(style, k) == IF style = "scalar" THEN 1 ELSE k

\* hist: the number of update() and prune() calls of the run, whether the
\* last check warned, whether the last update still awaits its prune,
\* whether the baseline was computed afresh, the K the baseline and the new
\* bound were evaluated with, whether the last prune kept K
NoHist == [updates |-> 0, prunes |-> 0, warned |-> FALSE, pending |-> FALSE,
           fresh |-> FALSE, K_base |-> NoK, K_new |-> NoK, K_kept |-> FALSE]

InitEngine ==
    /\ K \in 1..MaxK
    /\ \E style \in PriorStyles :
         /\ alpha0 = [k \in 1..K |-> PriorVal(style, k)]
         /\ beta0  = [k \in 1..K |-> PriorVal(style, k)]
         /\ nu0    = [k \in 1..K |-> Dim - 1 + PriorVal(style, k)]
         /\ m0     = [k \in 1..K |-> PriorVal(style, k)]
         /\ W0     = [k \in 1..K |-> [post |-> FALSE, id |-> PriorVal(style, k)]]
         /\ inv_W0 = [k \in 1..K |-> [inv |-> PriorVal(style, k)]]
    /\ alpha = alpha0
    /\ beta = beta0
    /\ nu = nu0
    /\ m = [k \in 1..K |-> [post |-> FALSE, id |-> k]]
    /\ W = W0
    /\ expectation_det_ln_lambda = DetLnLambda(nu, W)
    /\ expectation_gauss_exponent =
           GaussExponent([k \in 1..K |-> [upd |-> FALSE]], K, beta, nu, m, W)
    /\ expectation_ln_pi = LnPi(alpha)
    /\ r \in Responsibilities(K)
    /\ N_comp = NComp(r)
    /\ inv_N_comp = InvNComp(N_comp)
    /\ x_mean_comp = XMeanComp(inv_N_comp, r)
    /\ S = UpdateS([k \in 1..K |-> [upd |-> FALSE]], K, r, x_mean_comp, inv_N_comp)
    /\ error = "none"
    /\ calls = 0
    /\ ctor = [pc |-> "built"]
    /\ caller = NoCaller

\* run() has not been called
InitRun ==
    /\ pc = "idle"
    /\ i = 0
    /\ iterations = 0
    /\ prune_thr = 0
    /\ rel_tol = 0
    /\ abs_tol = 0
    /\ old_K = NoK
    /\ bound = NoBound
    /\ old_bound = NoBound
    /\ ret = [kind |-> "unset", val |-> 0]
    /\ hist = NoHist

Init ==
    /\ InitEngine
    /\ InitRun
    /\ lb = NoLb
    /\ chain = NoChain
    /\ last = [op |-> "init", thr |-> 0]

\* --------------------------------------------------- the public methods
\* the calls explored: at most MaxCalls on one engine, a run() being the last
CanCall == pc = "idle" /\ calls < MaxCalls /\ ret.kind = "unset"

\* run() is explored on a newly constructed engine
CanRun == pc = "idle" /\ calls = 0

CallE_step ==
    /\ CanCall
    /\ calls' = calls + 1
    /\ EStep(K, alpha, beta, nu, m, W, expectation_det_ln_lambda,
             expectation_ln_pi, expectation_gauss_exponent,
             r, N_comp, inv_N_comp, x_mean_comp, S)
    /\ last' = [op |-> "E_step", thr |-> 0]
    /\ UNCHANGED <<K, priors, posteriors, runvars, ctor, chain, caller>>
    /\ lb' = Stale(lb)

CallM_step ==
    /\ CanCall
    /\ calls' = calls + 1
    /\ MStep
    /\ error' = "none"
    /\ last' = [op |-> "M_step", thr |-> 0]
    /\ UNCHANGED <<K, priors, stats, caches, runvars, ctor, chain>>
    /\ lb' = Stale(lb)

CallUpdate ==
    /\ CanCall
    /\ calls' = calls + 1
    /\ Update
    /\ last' = [op |-> "update", thr |-> 0]
    /\ UNCHANGED <<runvars, ctor, chain>>
    /\ lb' = Stale(lb)

CallPrune ==
    /\ CanCall
    /\ calls' = calls + 1
    /\ \E threshold \in Thresholds :
         /\ Prune(threshold)
         /\ last' = [op |-> "prune", thr |-> threshold]
    /\ UNCHANGED <<runvars, ctor, chain>>
    /\ lb' = Stale(lb)


\* ---------------------------------------------------------- run (234-311)
\* abs(diff / bound) < rel_tol with rel_tol = rel_num / RelDen; a division
\* by a zero bound gives an infinite quotient, which is below no tolerance
RelBelow(diff, b, rel_num) == b # 0 /\ Abs(diff) * RelDen < rel_num * Abs(b)

\* variant: the tolerance tests taken relative to the baseline
ConvergedFromBaseline(old, new, atol, rel_num) ==
    IF new = old THEN TRUE
    ELSE LET diff == new - old IN
         IF diff > 0
         THEN IF Abs(old) < atol
              THEN Abs(diff) < atol
              ELSE RelBelow(diff, old, rel_num)
         ELSE FALSE

\* variant: the tolerance tests applied to a decrease as well
ConvergedEitherSign(old, new, atol, rel_num) ==
    IF new = old THEN TRUE
    ELSE LET diff == new - old IN
         IF Abs(new) < atol
         THEN Abs(diff) < atol
         ELSE RelBelow(diff, new, rel_num)

\* the convergence test of lines 292-305 on the baseline and the new bound
Converged(old, new, atol, rel_num) ==
    IF new = old THEN TRUE
    ELSE LET diff == new - old IN
         IF diff > 0
         THEN IF Abs(new) < atol
              THEN Abs(diff) < atol
              ELSE RelBelow(diff, new, rel_num)
         ELSE FALSE

\* variant: the previous bound is reused in every iteration but the first
ReuseAfterFirst(K_, oldK) == oldK # NoK

\* line 276: the previous bound is reused when K equals the K saved before
\* the last prune
ReuseBound(K_, oldK) == K_ = oldK

\* variant: the range runs one iteration too far
LoopContinuesOneMore(i_, n) == i_ <= n

\* for i in range(1, iterations + 1): another iteration follows iteration i_
LoopContinues(i_, n) == i_ < n

RunStart ==
    /\ CanRun
    /\ calls' = calls + 1
    /\ \E n \in 0..MaxIter, threshold \in Thresholds, tol \in TolPairs :
         /\ iterations' = n
         /\ prune_thr' = threshold
         /\ abs_tol' = tol[1]
         /\ rel_tol' = tol[2]
         /\ pc' = IF LoopContinues(0, n) THEN "top" ELSE "idle"
         /\ ret' = IF LoopContinues(0, n) THEN [kind |-> "unset", val |-> 0]
                                          ELSE [kind |-> "None", val |-> 0]
    /\ i' = 1
    /\ old_K' = NoK
    /\ bound' = NoBound
    /\ old_bound' = NoBound
    /\ error' = "none"
    /\ hist' = NoHist
    /\ last' = [op |-> "run", thr |-> 0]
    /\ UNCHANGED <<engine, ctor, chain, caller, lb>>

\* lines 275-281
RunBaseline ==
    /\ pc = "top"
    /\ IF ReuseBound(K, old_K)
       THEN /\ old_bound' = bound
            /\ lb' = lb
            /\ hist' = [hist EXCEPT !.fresh = FALSE, !.K_base = hist.K_new]
       ELSE /\ \E b \in LikelihoodBound(lb) : old_bound' = b
            /\ lb' = [fresh |-> TRUE, val |-> old_bound']
            /\ hist' = [hist EXCEPT !.fresh = TRUE, !.K_base = K]
    /\ pc' = "upd"
    /\ last' = [op |-> "run.baseline", thr |-> 0]
    /\ UNCHANGED <<engine, error, calls, i, iterations, prune_thr, rel_tol,
                   abs_tol, old_K, bound, ret, ctor, chain, caller>>

\* lines 283-284
RunUpdate ==
    /\ pc = "upd"
    /\ Update
    /\ IF error' # "none"
       THEN /\ pc' = "idle"
            /\ ret' = [kind |-> "raised", val |-> 0]
            /\ bound' = bound
            /\ lb' = Stale(lb)
            /\ hist' = [hist EXCEPT !.updates = @ + 1, !.pending = TRUE]
       ELSE /\ pc' = "chk"
            /\ ret' = ret
            /\ \E b \in LikelihoodBound(Stale(lb)) : bound' = b
            /\ lb' = [fresh |-> TRUE, val |-> bound']
            /\ hist' = [hist EXCEPT !.updates = @ + 1, !.pending = TRUE,
                                    !.K_new = K]
    /\ last' = [op |-> "update", thr |-> 0]
    /\ UNCHANGED <<calls, i, iterations, prune_thr, rel_tol, abs_tol,
                   old_K, old_bound, ctor, chain>>

\* variant: an iteration without convergence goes on to the next one
\* without the prune step
RunCheckNoPrune ==
    /\ pc = "chk"
    /\ hist' = [hist EXCEPT !.warned = (bound < old_bound)]
    /\ IF Converged(old_bound, bound, abs_tol, rel_tol)
       THEN /\ pc' = "idle"
            /\ ret' = [kind |-> "int", val |-> i]
       ELSE IF i < iterations
            THEN pc' = "upd" /\ ret' = ret
            ELSE pc' = "idle" /\ ret' = [kind |-> "None", val |-> 0]
    /\ last' = [op |-> "run.check", thr |-> 0]
    /\ UNCHANGED <<engine, error, calls, i, iterations, prune_thr, rel_tol,
                   abs_tol, old_K, bound, old_bound, ctor, chain, caller, lb>>

\* lines 289-305
RunCheck ==
    /\ pc = "chk"
    /\ hist' = [hist EXCEPT !.warned = (bound < old_bound)]
    /\ IF Converged(old_bound, bound, abs_tol, rel_tol)
       THEN /\ pc' = "idle"
            /\ ret' = [kind |-> "int", val |-> i]
       ELSE /\ pc' = "prune"
            /\ ret' = ret
    /\ last' = [op |-> "run.check", thr |-> 0]
    /\ UNCHANGED <<engine, error, calls, i, iterations, prune_thr, rel_tol,
                   abs_tol, old_K, bound, old_bound, ctor, chain, caller, lb>>

\* lines 307-311
RunPrune ==
    /\ pc = "prune"
    /\ old_K' = K
    /\ Prune(prune_thr)
    /\ hist' = [hist EXCEPT !.prunes = @ + 1, !.pending = FALSE,
                            !.K_kept = (K' = K)]
    /\ IF error' # "none"
       THEN pc' = "idle" /\ ret' = [kind |-> "raised", val |-> 0] /\ i' = i
       ELSE IF LoopContinues(i, iterations)
            THEN pc' = "top" /\ ret' = ret /\ i' = i + 1
            ELSE pc' = "idle" /\ ret' = [kind |-> "None", val |-> 0] /\ i' = i
    /\ last' = [op |-> "prune", thr |-> prune_thr]
    /\ lb' = Stale(lb)
    /\ UNCHANGED <<calls, iterations, prune_thr, rel_tol, abs_tol,
                   bound, old_bound, ctor, chain>>

Next ==
    \/ CallE_step
    \/ CallM_step
    \/ CallUpdate
    \/ CallPrune
    \/ RunStart
    \/ RunBaseline
    \/ RunUpdate
    \/ RunCheck
    \/ RunPrune

Spec == Init /\ [][Next]_vars


\* ======================================================================
\* Properties
\* ======================================================================
RunEnded == pc = "idle" /\ ret.kind # "unset"

\* the tolerance conditions of step 6 of the convergence controller as the
\* specification words them: both tests relative to the baseline
Step6Baseline(old, new, atol, rel_num) ==
    LET diff == new - old IN
    /\ diff > 0
    /\ \/ Abs(old) < atol /\ Abs(diff) < atol
       \/ RelBelow(diff, old, rel_num)

\* the tolerance conditions relative to the new bound: the absolute test when
\* the new bound is within abs_tol of zero, the relative test otherwise
Step6NewBound(old, new, atol, rel_num) ==
    LET diff == new - old IN
    /\ diff > 0
    /\ \/ Abs(new) < atol /\ Abs(diff) < atol
       \/ Abs(new) >= atol /\ new # 0 /\ Abs(diff) * RelDen < rel_num * Abs(new)

TolMax      == 6
TolBounds   == (0 - TolMax)..TolMax
TolAbsVals  == 0..4
TolRelNums  == 0..5

InitTol ==
    /\ InitEngine
    /\ K = 1
    /\ pc = "chk"
    /\ i = 1
    /\ iterations = 1
    /\ prune_thr = 1
    /\ rel_tol \in TolRelNums
    /\ abs_tol \in TolAbsVals
    /\ old_K = NoK
    /\ bound \in TolBounds
    /\ old_bound \in TolBounds
    /\ lb = [fresh |-> TRUE, val |-> bound]
    /\ chain = NoChain
    /\ ret = [kind |-> "unset", val |-> 0]
    /\ hist = [NoHist EXCEPT !.updates = 1, !.pending = TRUE, !.fresh = TRUE,
                             !.K_base = 1, !.K_new = 1]
    /\ last = [op |-> "update", thr |-> 0]

NextTol == RunCheck

SpecTol == InitTol /\ [][NextTol]_vars

\* C2 as stated: when the new bound differs from the baseline, convergence is
\* declared iff diff > 0 and (|baseline| < abs_tol and |diff| < abs_tol, or
\* |diff / baseline| < rel_tol).
C2_AsStated ==
    (last.op = "run.check" /\ bound # old_bound) =>
        ((ret.kind = "int") <=> Step6Baseline(old_bound, bound, abs_tol, rel_tol))

\* C2 (amended): when the new bound differs from the baseline, convergence is
\* declared iff diff > 0 and either |new| < abs_tol and |diff| < abs_tol, or
\* |new| >= abs_tol and |diff / new| < rel_tol: both tests are taken relative
\* to the new bound, and the relative test applies only when the absolute
\* one does not.
C2_RelativeToNewBound ==
    (last.op = "run.check" /\ bound # old_bound) =>
        ((ret.kind = "int") <=> Step6NewBound(old_bound, bound, abs_tol, rel_tol))

\* witness of C2: convergence declared on a pair of bounds for which the test
\* relative to the baseline fails
C2_Witness ==
    /\ last.op = "run.check" /\ bound # old_bound /\ ret.kind = "int"
    /\ ~Step6Baseline(old_bound, bound, abs_tol, rel_tol)

C4_BaselineSameK ==
    /\ (pc = "upd" /\ i = 1) => hist.fresh
    /\ (pc = "upd" /\ i > 1) =>
           /\ (~hist.fresh) <=> hist.K_kept
           /\ (~hist.fresh) => old_bound = bound
    /\ pc = "chk" => (hist.K_base = hist.K_new /\ hist.K_new = K)

\* witness of C4: the second iteration compares two bounds after a prune
\* that removed a component
C4_Witness == pc = "chk" /\ i = 2 /\ hist.fresh /\ ~hist.K_kept

\* the hyperparameter arrays
Hyper == <<alpha0, alpha, beta0, beta, nu0, nu, m0, m, W0, inv_W0, W>>

\* C5: prune(threshold) with a nonzero threshold never increases K; the
\* survivors are the components with N_comp >= threshold, and in every
\* hyperparameter array the j-th entry afterwards is the old entry of the
\* j-th survivor in ascending order.
C5_PruneCompacts ==
    [][ (last'.op = "prune" /\ last'.thr # 0) =>
          LET SurvSet == {k \in 1..Len(N_comp) : N_comp[k] >= last'.thr}
              Rank(k) == Cardinality({j \in SurvSet : j <= k})
          IN /\ K' <= K
             /\ K' = Cardinality(SurvSet)
             /\ \A a \in 1..Len(Hyper) :
                  /\ Len(Hyper'[a]) = K'
                  /\ \A k \in SurvSet : Hyper'[a][Rank(k)] = Hyper[a][k]
      ]_vars

\* witness of C5: of three components the second was removed and the third
\* moved to its place
C5_Witness ==
    /\ last.op = "prune" /\ last.thr # 0 /\ K = 2
    /\ alpha0 = <<1, 3>> /\ inv_W0 = <<[inv |-> 1], [inv |-> 3]>>

\* C6 as stated: in every state every per-component array has first-axis
\* length K, and r and expectation_gauss_exponent have K columns.
C6_AsStated ==
    /\ \A a \in 1..Len(Hyper) : Len(Hyper[a]) = K
    /\ Len(N_comp) = K /\ Len(inv_N_comp) = K /\ Len(x_mean_comp) = K
    /\ Len(S) = K
    /\ Len(expectation_det_ln_lambda) = K /\ Len(expectation_ln_pi) = K
    /\ Len(r) = K /\ Len(expectation_gauss_exponent) = K

\* C7: prune with a zero threshold changes nothing of the engine; prune with
\* a nonzero threshold that every component reaches leaves K and all prior
\* and posterior hyperparameters unchanged.
C7_PruneFrame ==
    [][ /\ (last'.op = "prune" /\ last'.thr = 0) => UNCHANGED engine
        /\ (/\ last'.op = "prune" /\ last'.thr # 0
            /\ \A k \in 1..Len(N_comp) : N_comp[k] >= last'.thr)
             => UNCHANGED <<K, priors, posteriors>>
      ]_vars

\* witness of C7: run() has called prune with a zero threshold after an update
C7_Witness == last.op = "prune" /\ last.thr = 0 /\ hist.prunes = 1

CtorMaxK == 2

Absent == [kind |-> "absent"]
Unset == [kind |-> "unset"]
Scalar(v) == [kind |-> "scalar", value |-> v]
PyList(d) == [kind |-> "list", data |-> d]
Array(sh, d) == [kind |-> "array", shape |-> sh, data |-> d]

\* numpy.array(v): a list of numbers becomes a vector, a float a 0-d array
NpArray(v) ==
    IF v.kind = "list" THEN Array(<<Len(v.data)>>, v.data)
    ELSE IF v.kind = "scalar" THEN Array(<<>>, <<v.value>>)
    ELSE v

\* numpy.iterable(v)
Iterable(v) == v.kind = "list" \/ (v.kind = "array" /\ Len(v.shape) > 0)

\* v * numpy.ones(K)
Ones(v, K_) == Array(<<K_>>, [k \in 1..K_ |-> v])

KPriors == {"alpha0", "beta0", "nu0"}
KPosteriors == {"alpha", "beta", "nu"}
AttrNames == KPriors \cup KPosteriors \cup {"m0", "m", "W0", "inv_W0", "W"}

\* the bound every element must exceed: 0, and nu_min = dim - 1 for nu0, nu
KMin(name) == IF name \in {"nu0", "nu"} THEN Dim - 1 ELSE 0

\* the defaults 1e-5 and nu_min + 1e-5: the least value above the bound
KDefault(name) == KMin(name) + 1

PriorOf(name) ==
    IF name = "alpha" THEN "alpha0" ELSE IF name = "beta" THEN "beta0" ELSE "nu0"

NoErr == [type |-> "none", name |-> "", what |-> "", K |-> NoK]
Err(type, name, what, K_) == [type |-> type, name |-> name, what |-> what, K |-> K_]

\* _check_K_vector (525-532); v.shape of a float or list is an AttributeError
CheckKVectorNoLen(name, v, K_, min) ==
    IF v.kind # "array" THEN Err("AttributeError", "", "shape", NoK)
    ELSE IF Len(v.shape) # 1 THEN Err("ValueError", name, "rank", NoK)
    ELSE IF \E k \in Idx(v.data) : ~(v.data[k] > min)
         THEN Err("ValueError", name, "min", NoK)
    ELSE NoErr

CheckKVector(name, v, K_, min) ==
    IF v.kind # "array" THEN Err("AttributeError", "", "shape", NoK)
    ELSE IF Len(v.shape) # 1 THEN Err("ValueError", name, "rank", NoK)
    ELSE IF v.shape[1] # K_ THEN Err("ValueError", name, "len", K_)
    ELSE IF \E k \in Idx(v.data) : ~(v.data[k] > min)
         THEN Err("ValueError", name, "min", NoK)
    ELSE NoErr

\* ---- the keyword arguments a caller may pass
\* for a K-vector parameter: nothing, a float at or above the bound, a list,
\* and arrays of the right shape (valid, or with one element at the bound),
\* of length K-1 and K+1, and of rank 2
KVecArgs(K_, min) ==
    { Absent, Scalar(min), Scalar(min + 1),
      PyList([k \in 1..K_ |-> min + 1]),
      Array(<<K_>>, [k \in 1..K_ |-> min + k]),
      Array(<<K_>>, [k \in 1..K_ |-> IF k = K_ THEN min ELSE min + k]),
      Array(<<K_ - 1>>, [k \in 1..(K_ - 1) |-> min + k]),
      Array(<<K_ + 1>>, [k \in 1..(K_ + 1) |-> min + k]),
      Array(<<1, K_>>, [k \in 1..K_ |-> min + k]) }

\* the rows t+1, t+2, ... of a matrix with n rows, row-major
Rows(n, t) == [j \in 1..(n * Dim) |-> t + 1 + ((j - 1) \div Dim)]

\* for m0 and m: nothing, a float, one D-vector, a K x D and a (K+1) x D matrix
MArgs(K_) ==
    { Absent, Scalar(1),
      Array(<<Dim>>, Rows(1, 6)),
      Array(<<K_, Dim>>, Rows(K_, 0)),
      Array(<<K_ + 1, Dim>>, Rows(K_ + 1, 0)) }

\* for W0 and W: nothing, a list of matrices, one D x D matrix, K and K+1
\* matrices
WArgs(K_) ==
    { Absent,
      PyList([k \in 1..K_ |-> k]),
      Array(<<Dim, Dim>>, <<7>>),
      Array(<<K_, Dim, Dim>>, [k \in 1..K_ |-> k]),
      Array(<<K_ + 1, Dim, Dim>>, [k \in 1..(K_ + 1) |-> k]) }

\* numpy.zeros(dim), numpy.eye(dim), numpy.linspace(-1, 1, K*dim).reshape(K, dim)
Zeros == Array(<<Dim>>, [d \in 1..Dim |-> 0])
Eye == Array(<<Dim, Dim>>, <<0>>)
Linspace(K_) == Array(<<K_, Dim>>, [j \in 1..(K_ * Dim) |-> j])

\* numpy.linalg.inv, matrix by matrix: the unit matrix 0 is its own inverse
Inv(v) == Array(v.shape, [k \in Idx(v.data) |-> 0 - v.data[k]])

RECURSIVE Repeat(_, _)
Repeat(d, n) == IF n = 0 THEN <<>> ELSE d \o Repeat(d, n - 1)

\* numpy.vstack(K copies of v), numpy.array([M] * K)
Stack(v, K_) == Array(<<K_>> \o v.shape, Repeat(v.data, K_))

NoAttrs == [n \in AttrNames |-> Unset]

\* no engine exists before the construction has completed
NoEngine ==
    /\ K = 0
    /\ alpha0 = <<>> /\ alpha = <<>> /\ beta0 = <<>> /\ beta = <<>>
    /\ nu0 = <<>> /\ nu = <<>> /\ m0 = <<>> /\ m = <<>>
    /\ W0 = <<>> /\ inv_W0 = <<>> /\ W = <<>>
    /\ N_comp = <<>> /\ inv_N_comp = <<>> /\ x_mean_comp = <<>> /\ S = <<>>
    /\ expectation_det_ln_lambda = <<>> /\ expectation_ln_pi = <<>>
    /\ expectation_gauss_exponent = <<>> /\ r = <<>>
    /\ error = "none"
    /\ calls = 0

InitCtor ==
    /\ NoEngine
    /\ InitRun
    /\ last = [op |-> "init", thr |-> 0]
    /\ ctor = [pc |-> "new", mode |-> "", K |-> 0, guess |-> 0, err |-> NoErr,
               attrs |-> NoAttrs, name |-> "", arg |-> Absent]
    /\ caller = NoCaller
    /\ lb = NoLb
    /\ chain = NoChain

\* the step of the construction that has just been made, and where it goes
Stepped(name, arg, attrs_, e, nextpc) ==
    /\ ctor' = [ctor EXCEPT !.name = name, !.arg = arg, !.attrs = attrs_, !.err = e,
                            !.pc = IF e.type = "none" THEN nextpc ELSE "failed"]
    /\ UNCHANGED <<engine, error, calls, runvars, last, caller, lb, chain>>

\* __init__ (43-46) sets K = components; VBMerge.__init__ (832-837) takes
\* K from initial_guess, else from components, else raises ValueError.
\* components = 0 and guess = 0 stand for None.
CtorBegin ==
    /\ ctor.pc = "new"
    /\ \/ \E components \in 1..CtorMaxK :
            ctor' = [ctor EXCEPT !.mode = "samples", !.K = components,
                                 !.name = "components", !.pc = "alpha0"]
       \/ \E components \in 0..CtorMaxK, guess \in 0..CtorMaxK :
            ctor' = [ctor EXCEPT
                       !.mode = "merge", !.guess = guess, !.name = "components",
                       !.arg = IF components = 0 THEN Absent ELSE Scalar(components),
                       !.K = IF guess # 0 THEN guess ELSE components,
                       !.err = IF guess = 0 /\ components = 0
                               THEN Err("ValueError", "components", "noK", NoK)
                               ELSE NoErr,
                       !.pc = IF guess = 0 /\ components = 0 THEN "failed" ELSE "alpha0"]
    /\ UNCHANGED <<engine, error, calls, runvars, last, caller, lb, chain>>

\* alpha0, beta0, nu0 (442-447, 453-458, 466-471): popped with a float
\* default, a float is spread over K components, anything iterable goes
\* through numpy.array; the attribute is assigned, then checked
CtorPrior ==
    \E name \in KPriors :
      /\ ctor.pc = name
      /\ \E arg \in KVecArgs(ctor.K, KMin(name)) :
           LET given == IF arg = Absent THEN Scalar(KDefault(name)) ELSE arg
               stored == IF ~Iterable(given) THEN Ones(given.value, ctor.K)
                         ELSE NpArray(given)
           IN Stepped(name, arg, [ctor.attrs EXCEPT ![name] = stored],
                      CheckKVector(name, stored, ctor.K, KMin(name)),
                      IF name = "alpha0" THEN "alpha"
                      ELSE IF name = "beta0" THEN "beta" ELSE "nu")

\* alpha, beta, nu (448-450, 459-461, 472-474): popped with the prior times
\* ones(K) as default, assigned as given, checked, then numpy.array
CtorPosterior ==
    \E name \in KPosteriors :
      /\ ctor.pc = name
      /\ \E arg \in KVecArgs(ctor.K, KMin(name)) :
           LET given == IF arg = Absent THEN ctor.attrs[PriorOf(name)] ELSE arg
               e == CheckKVector(name, given, ctor.K, KMin(name))
               stored == IF e.type = "none" THEN NpArray(given) ELSE given
           IN Stepped(name, arg, [ctor.attrs EXCEPT ![name] = stored], e,
                      IF name = "alpha" THEN "beta0"
                      ELSE IF name = "beta" THEN "nu0" ELSE "m0")

\* m0 (476-480): numpy.array of the argument or of zeros(dim); len() of a
\* 0-d array is a TypeError; a vector of length dim becomes K rows
CtorM0 ==
    /\ ctor.pc = "m0"
    /\ \E arg \in MArgs(ctor.K) :
         LET a == IF arg = Absent THEN Zeros ELSE NpArray(arg)
             unsized == Len(a.shape) = 0
             stored == IF ~unsized /\ a.shape[1] = Dim /\ Len(a.shape) = 1
                       THEN Stack(a, ctor.K) ELSE a
         IN Stepped("m0", arg, [ctor.attrs EXCEPT !["m0"] = stored],
                    IF unsized THEN Err("TypeError", "m0", "unsized", NoK) ELSE NoErr,
                    "m")

\* m (483-490): linspace when absent, else numpy.array of the argument; then
\* the shapes of m0 and of m are compared with (K, dim), in this order
CtorM ==
    /\ ctor.pc = "m"
    /\ \E arg \in MArgs(ctor.K) :
         LET stored == IF arg = Absent THEN Linspace(ctor.K) ELSE NpArray(arg)
         IN Stepped("m", arg, [ctor.attrs EXCEPT !["m"] = stored],
                    IF ctor.attrs["m0"].shape # <<ctor.K, Dim>>
                    THEN Err("ValueError", "m0", "shape", ctor.K)
                    ELSE IF stored.shape # <<ctor.K, Dim>>
                    THEN Err("ValueError", "m", "shape", ctor.K)
                    ELSE NoErr,
                    "W0")

\* W0 (493-508): the unit matrix when absent; one D x D matrix is repeated K
\* times; K matrices are kept as passed; inv_W0 is computed alongside;
\* .shape of a list is an AttributeError, another shape a ValueError
CtorW0 ==
    /\ ctor.pc = "W0"
    /\ \E arg \in WArgs(ctor.K) :
         LET given == IF arg = Absent THEN Eye ELSE arg
             one == given.kind = "array" /\ given.shape = <<Dim, Dim>>
             all == given.kind = "array" /\ given.shape = <<ctor.K, Dim, Dim>>
             inv == IF arg = Absent THEN Eye ELSE Inv(given)
         IN Stepped("W0", arg,
                    [ctor.attrs EXCEPT
                       !["W0"] = IF one THEN Stack(given, ctor.K) ELSE given,
                       !["inv_W0"] = IF one THEN Stack(inv, ctor.K)
                                     ELSE IF all THEN inv ELSE @],
                    IF given.kind # "array" THEN Err("AttributeError", "", "shape", NoK)
                    ELSE IF one \/ all THEN NoErr
                    ELSE Err("ValueError", "W0", "shape", ctor.K),
                    "W")

\* W (509-511): a copy of W0 when absent, else the argument as passed
CtorW ==
    /\ ctor.pc = "W"
    /\ \E arg \in WArgs(ctor.K) :
         LET stored == IF arg = Absent THEN ctor.attrs["W0"] ELSE arg
         IN Stepped("W", arg, [ctor.attrs EXCEPT !["W"] = stored],
                    IF stored.kind # "array" THEN Err("AttributeError", "", "shape", NoK)
                    ELSE IF stored.shape # <<ctor.K, Dim, Dim>>
                    THEN Err("ValueError", "W", "shape", ctor.K)
                    ELSE NoErr,
                    "kwargs")

\* 513: a keyword that no pop() has consumed is a TypeError
CtorKwargs ==
    /\ ctor.pc = "kwargs"
    /\ \E unexpected \in BOOLEAN :
         Stepped("kwargs", IF unexpected THEN Scalar(1) ELSE Absent, ctor.attrs,
                 IF unexpected THEN Err("TypeError", "", "keys", NoK) ELSE NoErr,
                 "finish")

\* the weights of the components of initial_guess: all equal, or the last
\* component without weight
GuessWeights(K_) ==
    { [k \in 1..K_ |-> 1], [k \in 1..K_ |-> IF k = K_ /\ K_ > 1 THEN 0 ELSE 1] }

\* VBMerge.__init__ 850-858: W, m and alpha are taken from initial_guess
\* (W is inv_sigma / (nu[k] - dim), named by the component it comes from:
\* a positive definite matrix for nu[k] > dim, a negative definite one for
\* dim - 1 < nu[k] < dim, which the value Dim of nu stands for)
FromGuess(attrs_, K_, weights) ==
    [attrs_ EXCEPT !["W"] = Array(<<K_, Dim, Dim>>,
                                  [k \in 1..K_ |->
                                     IF attrs_["nu"].data[k] <= Dim
                                     THEN MatNegDef + k ELSE 10 + k]),
                   !["m"] = Array(<<K_, Dim>>, Rows(K_, 10)),
                   !["alpha"] = Array(<<K_>>, [k \in 1..K_ |-> NSamples * weights[k]])]

\* the attributes as the engine's arrays: a K x D array by rows, the
\* matrices by their names
EngineRows(v) == [k \in 1..v.shape[1] |-> SubSeq(v.data, (k - 1) * Dim + 1, k * Dim)]
EngineM(v) == [k \in 1..v.shape[1] |-> [post |-> FALSE, id |-> EngineRows(v)[k]]]
EngineW(v) == [k \in Idx(v.data) |-> [post |-> FALSE, id |-> v.data[k]]]
EngineInvW(v) == [k \in Idx(v.data) |-> [inv |-> 0 - v.data[k]]]

\* the rest of __init__ (62-68, 846-860): the values of initial_guess, the
\* zeroed expectation_gauss_exponent and the first E-step; when the
\* E-step raises, __init__ raises and no engine comes to exist
CtorFinish ==
    /\ ctor.pc = "finish"
    /\ \E weights \in GuessWeights(ctor.K) :
         LET a == IF ctor.mode = "merge" /\ ctor.guess # 0
                  THEN FromGuess(ctor.attrs, ctor.K, weights) ELSE ctor.attrs
         IN IF DetAssertFails(EngineW(a["W"]))
            THEN /\ ctor' = [ctor EXCEPT !.pc = "failed", !.name = "E_step",
                                         !.arg = Absent, !.attrs = a,
                                         !.err = Err("AssertionError", "W", "det", NoK)]
                 /\ error' = "AssertionError"
                 /\ UNCHANGED engine
            ELSE
            /\ ctor' = [ctor EXCEPT !.pc = "built", !.name = "E_step",
                                    !.arg = Absent, !.attrs = a]
            /\ K' = ctor.K
            /\ alpha0' = a["alpha0"].data /\ alpha' = a["alpha"].data
            /\ beta0' = a["beta0"].data /\ beta' = a["beta"].data
            /\ nu0' = a["nu0"].data /\ nu' = a["nu"].data
            /\ m0' = EngineRows(a["m0"]) /\ m' = EngineM(a["m"])
            /\ W0' = EngineW(a["W0"]) /\ inv_W0' = EngineInvW(a["inv_W0"])
            /\ W' = EngineW(a["W"])
            /\ EStep(K', alpha', beta', nu', m', W',
                     expectation_det_ln_lambda, expectation_ln_pi,
                     [k \in 1..K' |-> [upd |-> FALSE]], r, N_comp, inv_N_comp,
                     x_mean_comp, [k \in 1..K' |-> [upd |-> FALSE]])
    /\ UNCHANGED <<calls, runvars, last, caller, lb, chain>>

NextCtor ==
    \/ CtorBegin
    \/ CtorPrior
    \/ CtorPosterior
    \/ CtorM0
    \/ CtorM
    \/ CtorW0
    \/ CtorW
    \/ CtorKwargs
    \/ CtorFinish

SpecCtor == InitCtor /\ [][NextCtor]_vars

\* ---------------------------------------------------------------------
\* An engine on caller-supplied matrices, and the calls that read it:
\* make_mixture, posterior2prior, prior_posterior, likelihood_bound.
\* ---------------------------------------------------------------------
\* an engine matrix as passed by the caller
Passed(id) == [post |-> FALSE, id |-> id]

\* the arrays of K matrices a caller passes as W: positive definite ones,
\* or with the first matrix replaced
WGiven(K_, first) == [k \in 1..K_ |-> Passed(IF k = 1 /\ first # 0 THEN first ELSE 10 + k)]

\* the state after GaussianInference(data, components=K, alpha0=..., ...,
\* W0=W0, W=W) with W0 and W absent or arrays of shape (K, dim, dim), which
\* lines 505 and 509 keep as passed; the first E-step has accepted W
InitEngineW ==
    /\ K \in 1..MaxK
    /\ alpha0 = [k \in 1..K |-> k]
    /\ beta0  = [k \in 1..K |-> k]
    /\ nu0    = [k \in 1..K |-> Dim + K - k]
    /\ m0     = [k \in 1..K |-> k]
    /\ W0     = [k \in 1..K |-> Passed(k)]
    /\ inv_W0 = [k \in 1..K |-> [inv |-> k]]
    /\ alpha = alpha0
    /\ beta = beta0
    /\ nu = nu0
    /\ m = [k \in 1..K |-> Passed(k)]
    /\ \E first \in {0, MatNonPD} : W \in {W0, WGiven(K, first)}
    /\ ~DetAssertFails(W)
    /\ \E W0passed \in BOOLEAN :
         caller = [NoCaller EXCEPT
                     !.args.W0 = IF W0passed THEN Buf("W0", TRUE, W0) ELSE NoBuf,
                     !.args.W = IF W # W0 THEN Buf("W", TRUE, W) ELSE NoBuf]
    /\ expectation_det_ln_lambda = DetLnLambda(nu, W)
    /\ expectation_gauss_exponent =
           GaussExponent([k \in 1..K |-> [upd |-> FALSE]], K, beta, nu, m, W)
    /\ expectation_ln_pi = LnPi(alpha)
    /\ r \in Responsibilities(K)
    /\ N_comp = NComp(r)
    /\ inv_N_comp = InvNComp(N_comp)
    /\ x_mean_comp = XMeanComp(inv_N_comp, r)
    /\ S = UpdateS([k \in 1..K |-> [upd |-> FALSE]], K, r, x_mean_comp, inv_N_comp)
    /\ error = "none"
    /\ calls = 0
    /\ ctor = [pc |-> "built"]

InitW ==
    /\ InitEngineW
    /\ InitRun
    /\ lb = NoLb
    /\ chain = NoChain
    /\ last = [op |-> "init", thr |-> 0]

\* the attributes are bound to other arrays: no buffer is shared any more
Rebound(b) == [b EXCEPT !.shared = FALSE]

CallerRebound(c) ==
    [c EXCEPT !.args = [a \in DOMAIN c.args |-> Rebound(c.args[a])],
              !.snap.arrays = [key \in SnapKeys |-> Rebound(c.snap.arrays[key])]]

\* set_variational_parameters(W=w) or set_variational_parameters(W=w,
\* alpha=a, nu=n) on the engine (442-514): every other parameter is reset to
\* its default, W is the array passed, alpha and nu are copies of the arrays
\* passed; K, the statistics and the caches stay
CallSet_variational_parameters ==
    /\ CanCall
    /\ K >= 1
    /\ calls' = calls + 1
    /\ \E first \in {0, MatNonPD, MatNegDet, MatSingular} :
         /\ W' = WGiven(K, first)
         /\ caller' = [CallerRebound(caller) EXCEPT !.args.W = Buf("W", TRUE, W')]
    /\ alpha0' = [k \in 1..K |-> KDefault("alpha0")]
    /\ beta0' = [k \in 1..K |-> KDefault("beta0")]
    /\ beta' = beta0'
    /\ nu0' = [k \in 1..K |-> KDefault("nu0")]
    /\ \E given \in BOOLEAN :
         /\ alpha' = [k \in 1..K |-> IF given THEN KDefault("alpha") + 1 ELSE alpha0'[k]]
         /\ nu' = [k \in 1..K |-> IF given THEN KDefault("nu") + 1 ELSE nu0'[k]]
    /\ m0' = [k \in 1..K |-> 0]
    /\ m' = [k \in 1..K |-> Passed(k)]
    /\ W0' = [k \in 1..K |-> Passed(0)]
    /\ inv_W0' = [k \in 1..K |-> [inv |-> 0]]
    /\ error' = "none"
    /\ last' = [op |-> "set_variational_parameters", thr |-> 0]
    /\ UNCHANGED <<K, stats, caches, runvars, ctor, chain>>
    /\ lb' = Stale(lb)

\* variant: only a negative weight is skipped
WeightSkippedNegative(pi) == pi < 0

\* make_mixture 120-124: no Dirichlet mode for alpha_k - 1 <= 0
WeightSkipped(pi) == pi <= 0

\* numpy.linalg.inv (134) raises LinAlgError on a singular matrix
InvRaises(M) == DetSign(M) = 0

\* the value types of the output: a Gaussian of mean mu and covariance
\* sigma, a mixture of components with weights
Gauss(mu, sigma) == [mu |-> mu, sigma |-> sigma]
MixtureDensity(components, weights) == [components |-> components, weights |-> weights]

\* make_mixture (109-147): the loop over enumerate(self.W), from component k
RECURSIVE MakeMixtureLoop(_, _, _, _, _, _, _, _)
MakeMixtureLoop(k, components, weights, skipped, alpha_, nu_, m_, W_) ==
    IF k > Len(W_)
    THEN [made |-> TRUE, skipped |-> skipped,
          components |-> MixtureDensity(components, weights).components,
          weights |-> MixtureDensity(components, weights).weights]
    ELSE IF WeightSkipped(alpha_[k] - 1) \/ nu_[k] <= Dim \/ InvRaises(W_[k])
    THEN MakeMixtureLoop(k + 1, components, weights, Append(skipped, k),
                         alpha_, nu_, m_, W_)
    ELSE MakeMixtureLoop(k + 1,
           Append(components,
                  Gauss(m_[k], [inv |-> [scale |-> nu_[k] - Dim, W |-> W_[k]]])),
           Append(weights, alpha_[k] - 1), skipped, alpha_, nu_, m_, W_)

CallMake_mixture ==
    /\ CanCall
    /\ calls' = calls + 1
    /\ caller' = [caller EXCEPT
                    !.mix = MakeMixtureLoop(1, <<>>, <<>>, <<>>, alpha, nu, m, W)]
    /\ error' = "none"
    /\ last' = [op |-> "make_mixture", thr |-> 0]
    /\ UNCHANGED <<engine, runvars, ctor, chain, lb>>

\* the engine attribute of a name
Attr(name) ==
    CASE name = "alpha0" -> alpha0 [] name = "beta0" -> beta0 [] name = "nu0" -> nu0
      [] name = "m0" -> m0 [] name = "W0" -> W0
      [] name = "alpha" -> alpha [] name = "beta" -> beta [] name = "nu" -> nu
      [] name = "m" -> m [] name = "W" -> W

\* variant: the dict holds the engine's arrays themselves
CopyByReference(of) == Buf(of, TRUE, Attr(of))

\* numpy's .copy() of an attribute
Copy(of) == Buf(of, FALSE, Attr(of))

\* posterior2prior (166-176)
Posterior2prior ==
    [kind |-> "posterior2prior", components |-> K,
     arrays |-> [key \in SnapKeys |->
                   CASE key = "alpha0" -> Copy("alpha") [] key = "beta0" -> Copy("beta")
                     [] key = "nu0" -> Copy("nu") [] key = "m0" -> Copy("m")
                     [] key = "W0" -> Copy("W") [] OTHER -> NoBuf]]

\* prior_posterior (178-186)
Prior_posterior ==
    [kind |-> "prior_posterior", components |-> K,
     arrays |-> [key \in SnapKeys |-> Copy(key)]]

CallPosterior2prior ==
    /\ CanCall
    /\ calls' = calls + 1
    /\ caller' = [caller EXCEPT !.snap = Posterior2prior]
    /\ error' = "none"
    /\ last' = [op |-> "posterior2prior", thr |-> 0]
    /\ UNCHANGED <<engine, runvars, ctor, chain, lb>>

CallPrior_posterior ==
    /\ CanCall
    /\ calls' = calls + 1
    /\ caller' = [caller EXCEPT !.snap = Prior_posterior]
    /\ error' = "none"
    /\ last' = [op |-> "prior_posterior", thr |-> 0]
    /\ UNCHANGED <<engine, runvars, ctor, chain, lb>>

\* Wishart_log_B (930-933): math.log of a determinant that is not positive
\* raises ValueError
LogRaises(W_) == \E k \in Idx(W_) : DetSign(W_[k]) <= 0

\* likelihood_bound() (149-164); Wishart_log_B of W0 (736) or Wishart_H of
\* W (771) may raise after the first terms have been stored;
\* last.again: a value returned earlier belongs to the engine as it is
CallLikelihood_bound ==
    /\ CanCall
    /\ calls' = calls + 1
    /\ IF LogRaises(W0) \/ LogRaises(W)
       THEN error' = "ValueError" /\ lb' = NoLb
       ELSE /\ error' = "none"
            /\ \E b \in LikelihoodBound(lb) : lb' = [fresh |-> TRUE, val |-> b]
    /\ last' = [op |-> "likelihood_bound", thr |-> 0, again |-> lb.fresh]
    /\ UNCHANGED <<engine, runvars, ctor, chain, caller>>

\* the value a caller stores into an element of a returned array
Mark(of) == IF of \in {"m", "W", "W0"} THEN Passed(9) ELSE 9

\* the engine attribute after the caller's store into element 1 of buffer b
Written(name, b) ==
    IF b.shared /\ b.of = name /\ Len(Attr(name)) >= 1
    THEN [Attr(name) EXCEPT ![1] = Mark(name)]
    ELSE Attr(name)

\* the caller assigns to element 1 of an array of the returned dict
CallerWrites ==
    /\ CanCall
    /\ calls' = calls + 1
    /\ \E key \in SnapKeys :
         LET b == caller.snap.arrays[key] IN
         /\ b # NoBuf
         /\ Len(b.buf) >= 1
         /\ caller' = [caller EXCEPT
                         !.snap.arrays[key].buf[1] = Mark(b.of),
                         !.snap.arrays[key].passed[1] = Mark(b.of)]
         /\ alpha0' = Written("alpha0", b) /\ alpha' = Written("alpha", b)
         /\ beta0' = Written("beta0", b) /\ beta' = Written("beta", b)
         /\ nu0' = Written("nu0", b) /\ nu' = Written("nu", b)
         /\ m0' = Written("m0", b) /\ m' = Written("m", b)
         /\ W0' = Written("W0", b) /\ W' = Written("W", b)
    /\ error' = "none"
    /\ last' = [op |-> "caller_writes", thr |-> 0]
    /\ UNCHANGED <<K, inv_W0, stats, caches, runvars, ctor, chain>>
    /\ lb' = Stale(lb)

NextW ==
    \/ CallE_step
    \/ CallM_step
    \/ CallUpdate
    \/ CallPrune
    \/ CallSet_variational_parameters
    \/ CallMake_mixture
    \/ CallPosterior2prior
    \/ CallPrior_posterior
    \/ CallLikelihood_bound
    \/ CallerWrites

SpecW == InitW /\ [][NextW]_vars

\* ---- properties of the construction

KNames == KPriors \cup KPosteriors
StepOk == ctor.err.type = "none" /\ ctor.pc # "failed"

\* the argument is a well-formed K-vector: rank 1, length K, above the bound
GoodKVector(arg, K_, min) ==
    /\ arg.kind = "array"
    /\ arg.shape = <<K_>>
    /\ \A k \in Idx(arg.data) : arg.data[k] > min

\* the argument is one of the configuration errors of a K-vector parameter
BadKVector(arg, K_, min) ==
    \/ arg.kind = "array" /\ (arg.shape # <<K_>> \/ \E k \in Idx(arg.data) : arg.data[k] <= min)
    \/ arg.kind = "list" /\ (Len(arg.data) # K_ \/ \E k \in Idx(arg.data) : arg.data[k] <= min)
    \/ arg.kind = "scalar" /\ arg.value <= min

\* C9 as stated: a float above the bound passed for any of alpha0, alpha,
\* beta0, beta, nu0, nu is accepted and stored as a length-K vector of that
\* value; one D-vector passed for m0 or m is accepted and stored as a K x D
\* matrix of K identical rows; a valid length-K vector and a K x D matrix
\* are accepted and stored as passed.
C9_AsStated ==
    /\ (ctor.name \in KNames /\ ctor.arg.kind = "scalar"
          /\ ctor.arg.value > KMin(ctor.name))
       => (StepOk /\ ctor.attrs[ctor.name] = Ones(ctor.arg.value, ctor.K))
    /\ (ctor.name \in KNames /\ GoodKVector(ctor.arg, ctor.K, KMin(ctor.name)))
       => (StepOk /\ ctor.attrs[ctor.name] = ctor.arg)
    /\ (ctor.name = "m0" /\ ctor.arg.kind = "array" /\ ctor.arg.shape = <<Dim>>)
       => (StepOk /\ ctor.attrs["m0"] = Stack(ctor.arg, ctor.K))
    /\ (ctor.name = "m" /\ ctor.arg.kind = "array" /\ ctor.arg.shape = <<Dim>>
          /\ ctor.attrs["m0"].shape = <<ctor.K, Dim>>)
       => (StepOk /\ ctor.attrs["m"] = Stack(ctor.arg, ctor.K))
    /\ (ctor.name \in {"m0", "m"} /\ ctor.arg.kind = "array"
          /\ ctor.arg.shape = <<ctor.K, Dim>> /\ ctor.attrs["m0"].shape = <<ctor.K, Dim>>)
       => (StepOk /\ ctor.attrs[ctor.name] = ctor.arg)

ShapeForK(name, K_) ==
    IF name \in KNames THEN <<K_>>
    ELSE IF name \in {"m0", "m"} THEN <<K_, Dim>>
    ELSE <<K_, Dim, Dim>>

\* C11 as stated: when set_variational_parameters has failed a shape check
\* (rank or length of a K-vector, shape of m0, m, W0 or W), every attribute
\* it has assigned is an array of the shape that K demands: the offending
\* value was not committed.
C11_AsStated ==
    (ctor.pc = "failed" /\ ctor.err.what \in {"rank", "len", "shape"})
    => \A name \in AttrNames :
         \/ ctor.attrs[name] = Unset
         \/ /\ ctor.attrs[name].kind = "array"
            /\ ctor.attrs[name].shape = ShapeForK(name, ctor.K)

\* ---- properties of the calls that read the engine
\* the components make_mixture must emit, in ascending order
Emitted ==
    SelectSeq([k \in 1..Len(W) |-> k],
              LAMBDA k : alpha[k] > 1 /\ nu[k] > Dim /\ DetSign(W[k]) # 0)

\* C12: make_mixture() emits, in ascending order, one Gaussian of mean m_k
\* and covariance inv((nu_k - D) W_k) with weight alpha_k - 1 for exactly the
\* components with alpha_k > 1, nu_k > D and an invertible matrix, reports
\* every other component as skipped without raising, returns components
\* and weights of equal length, and leaves the engine as it was.
C12_MakeMixture ==
    [][last'.op = "make_mixture" =>
         LET mix == caller'.mix IN
         /\ mix.made
         /\ error' = "none"
         /\ Len(mix.components) = Len(Emitted)
         /\ Len(mix.weights) = Len(mix.components)
         /\ \A j \in Idx(Emitted) :
              /\ mix.components[j].mu = m[Emitted[j]]
              /\ mix.components[j].sigma =
                     [inv |-> [scale |-> nu[Emitted[j]] - Dim, W |-> W[Emitted[j]]]]
              /\ mix.weights[j] = alpha[Emitted[j]] - 1
         /\ \A k \in Idx(W) :
              (\E j \in Idx(mix.skipped) : mix.skipped[j] = k)
              <=> ~(\E j \in Idx(Emitted) : Emitted[j] = k)
         /\ engine' = engine]_vars

\* a mixture with an emitted component after a skipped one, and a component
\* skipped for its singular matrix alone
C12_Witness ==
    /\ last.op = "make_mixture"
    /\ error = "none"
    /\ Len(caller.mix.components) >= 1
    /\ \E j \in Idx(caller.mix.skipped) :
         LET k == caller.mix.skipped[j] IN
         /\ alpha[k] > 1 /\ nu[k] > Dim /\ DetSign(W[k]) = 0
         /\ \E n \in Idx(Emitted) : Emitted[n] > k

\* set_variational_parameters (442-505) on the dict of posterior2prior,
\* passed as the keyword arguments of an engine of d.components components
Vec(b) == NpArray(Array(<<Len(b.buf)>>, b.buf))

Validates(d) ==
    /\ \A name \in KPriors :
         CheckKVector(name, Vec(d.arrays[name]), d.components, KMin(name)) = NoErr
    /\ Len(d.arrays["m0"].buf) = d.components
    /\ Len(d.arrays["W0"].buf) = d.components
    /\ \A k \in Idx(d.arrays["W0"].buf) : ~InvRaises(d.arrays["W0"].buf[k])

C14_AsStated ==
    \A a \in DOMAIN caller.args : caller.args[a].buf = caller.args[a].passed

\* C15 as stated: after any call of prune with a nonzero threshold the
\* forced E-step has completed without error and at least one component
\* survives.
C15_AsStated ==
    (last.op = "prune" /\ last.thr # 0) => (error = "none" /\ K >= 1)

\* every parameter that initial_guess does not replace has its default
DefaultsOtherwise ==
    /\ \A name \in {"alpha0", "beta0", "beta", "nu0", "nu"} :
         ctor.attrs[name] = Ones(KDefault(name), ctor.K)
    /\ ctor.attrs["m0"] = Stack(Zeros, ctor.K)
    /\ ctor.attrs["W0"] = Stack(Eye, ctor.K)

\* C16 as stated: after a successful construction (raw samples, or merge
\* with components, or merge with initial_guess and otherwise default
\* parameters) every component has alpha_k > 0, beta_k > 0, nu_k > D - 1 and
\* a positive definite W_k.
C16_AsStated ==
    (/\ ctor.pc = "built"
     /\ ctor.name = "E_step"
     /\ \/ ctor.mode = "samples"
        \/ ctor.mode = "merge" /\ ctor.guess = 0
        \/ ctor.mode = "merge" /\ ctor.guess # 0 /\ DefaultsOtherwise)
    => \A k \in 1..K :
         alpha[k] > 0 /\ beta[k] > 0 /\ nu[k] > Dim - 1 /\ PosDef(W[k])

\* C17 as stated: an E-step that finds some W_k not positive definite fails
\* and computes no responsibilities.
C17_AsStated ==
    [][(last'.op = "E_step" /\ \E k \in Idx(W) : ~PosDef(W[k]))
         => (error' # "none" /\ r' = r)]_vars

\* C18: E_step runs its sub-steps in the order determinant, Gaussian
\* exponent, log mixing weight, responsibilities, N_comp, x_mean_comp, S.
\* When some W_k has a determinant that is not positive it aborts in the
\* first sub-step with all seven arrays (and inv_N_comp) as they were; when
\* there is no column it aborts in the fourth with the first three renewed
\* and the last four as they were; otherwise each array is computed from
\* the posteriors and from the arrays renewed before it.
C18_EStepOrder ==
    [][last'.op = "E_step" =>
         IF \E k \in Idx(W) : DetSign(W[k]) <= 0
         THEN /\ error' = "AssertionError"
              /\ caches' = caches
              /\ stats' = stats
         ELSE /\ expectation_det_ln_lambda' = DetLnLambda(nu, W)
              /\ expectation_gauss_exponent' =
                     GaussExponent(expectation_gauss_exponent, K, beta, nu, m, W)
              /\ expectation_ln_pi' = LnPi(alpha)
              /\ IF K = 0
                 THEN error' = "ValueError" /\ r' = r /\ stats' = stats
                 ELSE /\ error' = "none"
                      /\ N_comp' = NComp(r')
                      /\ inv_N_comp' = InvNComp(N_comp')
                      /\ x_mean_comp' = XMeanComp(inv_N_comp', r')
                      /\ S' = UpdateS(S, K, r', x_mean_comp', inv_N_comp')]_vars

\* an E-step has aborted on a determinant that is not positive and has left
\* the log-determinants of the matrices it replaced
C18_Witness ==
    /\ last.op = "E_step"
    /\ error = "AssertionError"
    /\ \E k \in Idx(W) : DetSign(W[k]) <= 0
    /\ \E k \in Idx(W) : expectation_det_ln_lambda[k] # DetLnLambda(nu, W)[k]

InitHist ==
    /\ NoEngine
    /\ InitRun
    /\ last = [op |-> "init", thr |-> 0]
    /\ ctor = [pc |-> "none"]
    /\ caller = NoCaller
    /\ lb = NoLb
    /\ \E dim \in 1..HistMaxDim, prealloc_for \in 0..MaxPrealloc, g \in Uninitialized :
         chain = HistNew(InitialPoint(dim), prealloc_for, g)

SpecHist == InitHist /\ [][NextHist]_vars

\* the rows of an array; the elements of a vector count as rows of one
\* coordinate
RowsOf(v) == IF v.rank = 2 THEN v.data ELSE [x \in Idx(v.data) |-> <<v.data[x]>>]

\* C21 as stated: after any sequence of _alloc(n) calls on a _hist of any
\* dimension and any prealloc_for, the run slices are contiguous from
\* (0, 1), every _alloc has returned a block of exactly n rows inside the
\* storage, and get_all_points() has 1 + (sum of all n) rows of dimension
\* dim: the initial point, then the points stored run by run (the rows
\* stored earlier are preserved).
C21_AsStated ==
    Len(chain.requested) >= 1 =>
    /\ chain.slice_for_run_nr[1] = <<0, 1>>
    /\ \A x \in 2..Len(chain.slice_for_run_nr) :
         /\ chain.slice_for_run_nr[x][1] = chain.slice_for_run_nr[x - 1][2]
         /\ chain.slice_for_run_nr[x][2] =
                chain.slice_for_run_nr[x][1] + chain.requested[x - 1]
    /\ chain.err = "none"
    /\ chain.block.made
    /\ chain.block.rows = Last(chain.requested)
    /\ chain.block.stop <= Len(chain.points.data)
    /\ Len(RowsOf(GetAllPoints(chain))) = 1 + SeqSum(chain.requested)
    /\ \A x \in Idx(RowsOf(GetAllPoints(chain))) :
         Len(RowsOf(GetAllPoints(chain))[x]) = chain.dim
    /\ \A x \in Idx(chain.visited) :
         /\ x <= Len(RowsOf(GetAllPoints(chain)))
         /\ RowsOf(GetAllPoints(chain))[x] = chain.visited[x]

====
